---- MODULE Spec2Model ----
(***************************************************************************)
(* One scrape of one target by RedfishMetricsCollector (src/collector.py): *)
(* get_session, collect (get_base_labels, get_chassis_urls, the fetches of *)
(* the downstream collectors) and __exit__.  Every HTTP exchange is one    *)
(* step; what the server answers is chosen nondeterministically.  The      *)
(* collector is used as the context manager it is: get_session(), then     *)
(* collect(), then __exit__, which also runs when an exception leaves one   *)
(* of the two.  An exception is kept in exc and ends the scrape.           *)
(***************************************************************************)
EXTENDS Integers, Sequences, FiniteSets, TLC

VARIABLES
  pc,              \* where the scrape stands (which call is next)
  exc,             \* the exception that left the running method, "" when none
  gs_end,          \* how get_session ended: "running", "returned", "raised"
  redfish_up,      \* self._redfish_up
  last_http_code,  \* self._last_http_code
  get_end,         \* how the last call of connect_server ended
  urls,            \* self.urls
  auth_token,      \* self._auth_token
  session_url,     \* self._session_url
  basic_auth,      \* self._basic_auth
  session,         \* self._session: the requests.Session and what it carries
  redfish_version, \* self.redfish_version
  server_response, \* what get_session's fetch of the service root returned
  sessions_url,    \* get_session's local sessions_url
  result,          \* get_session's local result: the last POST's response
  systems_url,     \* self._systems_url
  server_info,     \* get_base_labels' local server_info
  chassis_data,    \* get_chassis_urls' local chassis_data
  manufacturer,    \* self.manufacturer
  model,           \* self.model
  serial,          \* self.serial
  powerstate,      \* self.powerstate
  server_health,   \* self.server_health
  ss_status,       \* the status the SessionService read ended with, 0 before it
  post_ends,       \* how the session POSTs of the running get_session ended
  delete_end,      \* how the session DELETE ended, "" when none was sent
  calls,           \* how many times connect_server was called
  wire,            \* every request put on the wire, in order
  fetches          \* connect_server calls made by the downstream collectors

vars == <<pc, exc, gs_end, redfish_up, last_http_code, get_end, urls, auth_token,
          session_url, basic_auth, session, redfish_version, sessions_url,
          result, systems_url, server_info, manufacturer, model, serial,
          powerstate, server_health, ss_status, post_ends, delete_end, wire,
          fetches, server_response, calls, chassis_data>>

\* What get_session never touches, and what get_base_labels never touches.
discovery == <<systems_url, server_info, manufacturer, model, serial,
               powerstate, server_health, chassis_data>>
labels == <<systems_url, manufacturer, model, serial, powerstate,
            server_health>>
establish == <<redfish_up, auth_token, session_url, basic_auth,
               redfish_version, sessions_url, result, gs_end, ss_status,
               post_ends, server_response>>

\* ------------------------------------------------------------------ values

\* Python's None, a key that a JSON object does not have, and a link object
\* that has no "@odata.id" member.
None == "<None>"
Absent == "<absent>"
NoId == "<no-id>"

\* bool(v) of a string or None.
Truthy(v) == v \notin {"", None}

\* dict.get(key) / headers.get(key): None for a key that is not there.
Get(v) == IF v = Absent THEN None ELSE v

RootPath == "/redfish/v1"
SystemsPath == "/redfish/v1/Systems"
SessionServicePath == "/redfish/v1/SessionService"
SessionsPath == "/redfish/v1/SessionService/Sessions"
SessionPath == "/redfish/v1/SessionService/Sessions/7"
BodySessionPath == "/redfish/v1/SessionService/Sessions/8"
Token == "tok"

UrlKeys == {"Systems", "SessionService", "Memory", "ManagedBy", "Processors",
            "Storage", "Chassis", "Power", "Thermal", "PowerSubsystem",
            "ThermalSubsystem", "EthernetInterfaces"}

\* The bodies a response can carry: no JSON (or a falsy JSON value), a JSON
\* document, the standard error document, or a truthy JSON value without
\* error.code / error.message.
NoBody == [json |-> "none"]
ErrorBody == [json |-> "error"]
MalformedBody == [json |-> "malformed"]
DocBody(d) == [json |-> "doc", doc |-> d]

\* The ways one GET ends: an HTTP response, or one of the requests exceptions
\* connect_server tells apart.
GetFailures ==
  {[kind |-> k] : k \in {"ConnectTimeout", "ReadTimeout", "ConnectionError",
                         "RequestException"}}

GetOutcomes(docs) ==
  [kind : {"response"}, status : {200, 202}, body : {NoBody} \cup {DocBody(d) : d \in docs}]
  \cup [kind : {"response"}, status : {401, 404, 503},
        body : {NoBody, ErrorBody, MalformedBody}]
  \cup GetFailures

\* The same for the fetches of discovery, over fewer statuses.
DiscoveryOutcomes(docs) ==
  [kind : {"response"}, status : {200}, body : {NoBody} \cup {DocBody(d) : d \in docs}]
  \cup [kind : {"response"}, status : {404}, body : {ErrorBody, MalformedBody}]
  \cup {[kind |-> "ReadTimeout"], [kind |-> "ConnectionError"]}

\* ---------------------------------------------------------- connect_server

ConnectTimeoutCode == 408
ReadTimeoutCode == 408
ConnectionErrorCode == 444
RequestExceptionCode == 500

\* Which credentials connect_server puts on the session.
AuthBranch(noauth, basic) ==
  IF noauth THEN "noauth"
  ELSE IF basic \/ basic_auth THEN "basic"
  ELSE "token"

\* The requests.Session after connect_server has prepared it: created on
\* first use, auth and the X-Auth-Token header set by the branch taken and
\* kept from the call before otherwise.
ConnSession(noauth, basic) ==
  LET b == AuthBranch(noauth, basic) IN
  [created |-> TRUE,
   closed |-> session.closed,
   auth |-> IF b = "basic" THEN "basic"
            ELSE IF b = "token" THEN "none"
            ELSE session.auth,
   xtoken |-> IF b = "token" THEN auth_token ELSE session.xtoken]

\* self._last_http_code, were the 200 that connect_server starts with to
\* outlast a request that got no response.
ConnCodeStale(out) ==
  IF out.kind = "response" THEN out.status ELSE 200

\* self._last_http_code when connect_server is left.
ConnCode(out) ==
  CASE out.kind = "response" -> out.status
    [] out.kind = "ConnectTimeout" -> ConnectTimeoutCode
    [] out.kind = "ReadTimeout" -> ReadTimeoutCode
    [] out.kind = "ConnectionError" -> ConnectionErrorCode
    [] OTHER -> RequestExceptionCode

\* connect_server raises (KeyError/TypeError) while logging the error body of
\* a failed request that has no error.code / error.message.
ConnRaises(out) ==
  /\ out.kind = "response"
  /\ out.status >= 400
  /\ out.body.json = "malformed"

\* What connect_server returns: the decoded body of a response below 400,
\* "" otherwise.
ConnResponse(out) ==
  IF out.kind = "response" /\ out.status < 400 THEN out.body ELSE NoBody

\* How a call of connect_server ended: what the request met, the status of
\* the response if there was one, and what was handed back to the caller.
NoEnd == [kind |-> "none", status |-> 0, returned |-> "none"]
ConnEnd(out) ==
  [kind |-> out.kind,
   status |-> IF out.kind = "response" THEN out.status ELSE 0,
   returned |-> IF ConnRaises(out) THEN "none" ELSE ConnResponse(out).json]

\* bool(server_response)
HasBody(resp) == resp.json = "doc"

\* The request connect_server sends: the session's auth and its
\* X-Auth-Token header go with it.
GetRequest(command, noauth, basic) ==
  LET s == ConnSession(noauth, basic) IN
  [method |-> "GET", url |-> command, auth |-> s.auth, xtoken |-> s.xtoken]

\* ------------------------------------------------------------- get_session

RootDocs ==
  [RedfishVersion : {Absent, "1.6.0"},
   Systems : {Absent, NoId, "", SystemsPath},
   SessionService : {Absent, NoId, SessionServicePath}]

SessionServiceDocs == [Sessions : {Absent, NoId, SessionsPath}]

\* self.urls after the loop over ["Systems", "SessionService"].
RootUrls(doc) ==
  IF doc.Systems \in {Absent, NoId} THEN urls
  ELSE IF doc.SessionService \in {Absent, NoId}
       THEN [urls EXCEPT !["Systems"] = doc.Systems]
       ELSE [urls EXCEPT !["Systems"] = doc.Systems,
                         !["SessionService"] = doc.SessionService]

\* A loop that goes on without the SessionService link.
RootLinksLenient(doc) ==
  CASE doc.Systems = Absent -> "return"
    [] doc.Systems = NoId -> "raise"
    [] doc.SessionService = NoId -> "raise"
    [] OTHER -> "ok"

\* The loop over ["Systems", "SessionService"] ends in a return (a key is
\* missing), in a KeyError (a link without "@odata.id") or falls through.
RootLinks(doc) ==
  CASE doc.Systems = Absent -> "return"
    [] doc.Systems = NoId -> "raise"
    [] doc.SessionService = Absent -> "return"
    [] doc.SessionService = NoId -> "raise"
    [] OTHER -> "ok"

\* get_session up to the end of the loop over the root document's links.
GetSessionRoot ==
  /\ pc = "get_session"
  /\ \E out \in GetOutcomes(RootDocs) :
       LET resp == ConnResponse(out)
           step == IF ConnRaises(out) THEN "raise"
                   ELSE IF ~HasBody(resp) THEN "return"
                   ELSE RootLinks(resp.doc)
       IN
       /\ session' = ConnSession(TRUE, FALSE)
       /\ last_http_code' = ConnCode(out)
       /\ get_end' = ConnEnd(out)
       /\ wire' = Append(wire, GetRequest(RootPath, TRUE, FALSE))
       /\ calls' = calls + 1
       /\ redfish_version' =
            IF ~ConnRaises(out) /\ HasBody(resp) /\ resp.doc.RedfishVersion # Absent
            THEN resp.doc.RedfishVersion
            ELSE redfish_version
       /\ urls' = IF ~ConnRaises(out) /\ HasBody(resp) THEN RootUrls(resp.doc) ELSE urls
       /\ server_response' = IF ConnRaises(out) THEN NoBody ELSE resp
       /\ pc' = CASE step = "raise" -> "exit"
                  [] step = "return" -> "collect"
                  [] OTHER -> "gs_session_service"
       /\ exc' = IF step = "raise" THEN "KeyError" ELSE exc
       /\ gs_end' = CASE step = "raise" -> "raised"
                      [] step = "return" -> "returned"
                      [] OTHER -> gs_end
  /\ UNCHANGED <<redfish_up, auth_token, session_url, basic_auth, sessions_url,
                 result, fetches, discovery, ss_status, post_ends, delete_end>>

\* The credentials of the SessionService read left on the session.
ClearAuthSkipped(s) == s

\* self._session.auth = None, before the POST
ClearAuth(s) == [s EXCEPT !.auth = "none"]

\* get_session going on to the POST whatever the SessionService read gave.
SessionServiceFailedNever(code) == FALSE

\* The SessionService read counts as failed unless the status is 200.
SessionServiceFailed(code) == code # 200

\* get_session from the SessionService read to the session POST.
GetSessionService ==
  /\ pc = "gs_session_service"
  /\ \E out \in GetOutcomes(SessionServiceDocs) :
       LET resp == ConnResponse(out)
           code == ConnCode(out)
           step == IF ConnRaises(out) THEN "raise"
                   ELSE IF SessionServiceFailed(code) THEN "basic"
                   ELSE IF ~HasBody(resp) THEN "raise"
                   ELSE IF resp.doc.Sessions \in {Absent, NoId} THEN "raise"
                   ELSE "post"
       IN
       /\ session' = IF step = "post"
                     THEN ClearAuth(ConnSession(FALSE, TRUE))
                     ELSE ConnSession(FALSE, TRUE)
       /\ last_http_code' = code
       /\ get_end' = ConnEnd(out)
       /\ ss_status' = code
       /\ wire' = Append(wire, GetRequest(urls["SessionService"], FALSE, TRUE))
       /\ calls' = calls + 1
       /\ basic_auth' = IF step = "basic" THEN TRUE ELSE basic_auth
       /\ sessions_url' = IF step = "post" THEN resp.doc.Sessions ELSE sessions_url
       /\ pc' = CASE step = "raise" -> "exit"
                  [] step = "basic" -> "collect"
                  [] OTHER -> "gs_post"
       /\ exc' = IF step = "raise"
                 THEN (IF ConnRaises(out) \/ HasBody(resp) THEN "KeyError" ELSE "TypeError")
                 ELSE exc
       /\ gs_end' = CASE step = "raise" -> "raised"
                      [] step = "basic" -> "returned"
                      [] OTHER -> gs_end
  /\ UNCHANGED <<redfish_up, urls, auth_token, session_url, redfish_version,
                 result, fetches, discovery, post_ends, delete_end,
                 server_response>>

\* The ways one session POST ends.  A response carries the X-Auth-Token and
\* Location headers (Absent when not sent) and a body: no JSON, a JSON object
\* with or without "@odata.id", or a JSON value that is no object.
NoResult == [kind |-> "none"]

PostResponses ==
  [kind : {"response"}, status : {200, 201, 204},
   token : {Absent, "", Token}, location : {Absent, SessionPath},
   body : {"none", "nondict", "object"}, id : {Absent, BodySessionPath}]
  \cup [kind : {"response"}, status : {401, 503},
        token : {Absent}, location : {Absent}, body : {"none"}, id : {Absent}]

PostOutcomes ==
  PostResponses
  \cup {[kind |-> k] : k \in {"ConnectTimeout", "ReadTimeout", "ConnectionError",
                               "RequestException"}}

\* A retry that a read timeout triggers too.
IsConnectionErrorOrTimeout(out) ==
  out.kind \in {"ConnectionError", "ConnectTimeout", "ReadTimeout"}

\* requests.exceptions.ConnectTimeout derives from ConnectionError: the first
\* except clause of the POST catches both.
IsConnectionError(out) == out.kind \in {"ConnectionError", "ConnectTimeout"}

\* raise_for_status() raises HTTPError.
IsHTTPError(out) == out.kind = "response" /\ out.status >= 400

\* bool(result) and result.status_code in [200, 201]
ResultAccepted(r) ==
  /\ r.kind = "response"
  /\ r.status < 400
  /\ r.status \in {200, 201}

\* result.headers.get('X-Auth-Token')
ResultToken(r) == Get(r.token)

\* A session URL that prefers the JSON body to the Location header.
ResultSessionUrlBodyFirst(r) ==
  IF r.body = "object" /\ Truthy(Get(r.id)) THEN r.id ELSE Get(r.location)

\* The session URL: the Location header, else the "@odata.id" of the JSON
\* body (kept as it is when the body is no JSON).
ResultSessionUrl(r) ==
  LET loc == Get(r.location) IN
  IF Truthy(loc) THEN loc
  ELSE IF r.body = "object" THEN Get(r.id)
  ELSE loc

\* The handling of an accepted result without the check of the token.
ResultStepUnchecked(r) ==
  CASE ~ResultAccepted(r) -> "skip"
    [] ~Truthy(Get(r.location)) /\ r.body = "nondict" -> "raise"
    [] ~Truthy(ResultSessionUrl(r)) -> "no_url"
    [] OTHER -> "up"

\* How the handling of an accepted result ends.
ResultStep(r) ==
  CASE ~ResultAccepted(r) -> "skip"
    [] ~Truthy(ResultToken(r)) -> "no_token"
    [] ~Truthy(Get(r.location)) /\ r.body = "nondict" -> "raise"
    [] ~Truthy(ResultSessionUrl(r)) -> "no_url"
    [] OTHER -> "up"

\* get_session from "if result and result.status_code in [200, 201]" on.
HandleResult(r) ==
  LET step == ResultStep(r) IN
  /\ auth_token' = IF step = "skip" THEN auth_token ELSE ResultToken(r)
  /\ session_url' = IF step = "up" THEN ResultSessionUrl(r) ELSE session_url
  /\ redfish_up' = CASE step \in {"no_token", "no_url"} -> 0
                     [] step = "up" -> 1
                     [] OTHER -> redfish_up
  /\ pc' = IF step = "raise" THEN "exit" ELSE "collect"
  /\ exc' = IF step = "raise" THEN "AttributeError" ELSE exc
  /\ gs_end' = IF step = "raise" THEN "raised" ELSE "returned"

\* An exception leaves get_session.
GetSessionRaises(name) ==
  /\ pc' = "exit"
  /\ exc' = name
  /\ gs_end' = "raised"
  /\ UNCHANGED <<auth_token, session_url, redfish_up>>

\* The POST goes through the requests.Session too.
PostRequest ==
  [method |-> "POST", url |-> sessions_url, auth |-> session.auth,
   xtoken |-> session.xtoken]

\* How a POST ended: the exception, or the status of the response.
PostEnd(out) ==
  [kind |-> out.kind, status |-> IF out.kind = "response" THEN out.status ELSE 0]

\* The first session POST and its except clauses.
SessionPost ==
  /\ pc = "gs_post"
  /\ \E out \in PostOutcomes :
       /\ wire' = Append(wire, PostRequest)
       /\ post_ends' = Append(post_ends, PostEnd(out))
       /\ result' = IF out.kind = "response" THEN out ELSE NoResult
       /\ IF IsConnectionError(out)
          THEN /\ pc' = "gs_retry"
               /\ UNCHANGED <<exc, gs_end, auth_token, session_url, redfish_up, basic_auth>>
          ELSE IF IsHTTPError(out) \/ out.kind = "ReadTimeout"
          THEN /\ basic_auth' = TRUE
               /\ HandleResult(result')
          ELSE IF out.kind = "RequestException"
          THEN /\ GetSessionRaises("RequestException")
               /\ UNCHANGED basic_auth
          ELSE /\ HandleResult(result')
               /\ UNCHANGED basic_auth
  /\ UNCHANGED <<last_http_code, get_end, urls, session, redfish_version, sessions_url,
                 fetches, discovery, ss_status, delete_end, server_response,
                 calls>>

\* The retry of the session POST, inside the ConnectionError clause: only a
\* second ConnectionError is caught there.
SessionPostRetry ==
  /\ pc = "gs_retry"
  /\ \E out \in PostOutcomes :
       /\ wire' = Append(wire, PostRequest)
       /\ post_ends' = Append(post_ends, PostEnd(out))
       /\ result' = IF out.kind = "response" THEN out ELSE NoResult
       /\ IF IsConnectionError(out)
          THEN /\ basic_auth' = TRUE
               /\ HandleResult(result')
          ELSE IF IsHTTPError(out)
          THEN /\ GetSessionRaises("HTTPError")
               /\ UNCHANGED basic_auth
          ELSE IF out.kind \in {"ReadTimeout", "RequestException"}
          THEN /\ GetSessionRaises(out.kind)
               /\ UNCHANGED basic_auth
          ELSE /\ HandleResult(result')
               /\ UNCHANGED basic_auth
  /\ UNCHANGED <<last_http_code, get_end, urls, session, redfish_version, sessions_url,
                 fetches, discovery, ss_status, delete_end, server_response,
                 calls>>

\* ----------------------------------------------------------------- collect

\* collect going on whatever _redfish_up.
TargetDownIgnored == FALSE

\* if self._redfish_up == 0: return
TargetDown == redfish_up = 0

\* collect up to the call of get_base_labels: nothing is discovered and no
\* collector runs when the target is not up.
Collect ==
  /\ pc = "collect"
  /\ pc' = IF TargetDown THEN "exit" ELSE "gbl_systems"
  /\ result' = NoResult
  /\ post_ends' = <<>>
  /\ sessions_url' = ""
  /\ UNCHANGED <<exc, gs_end, redfish_up, last_http_code, get_end, urls, auth_token,
                 session_url, basic_auth, session, redfish_version,
                 ss_status, delete_end, wire, fetches, discovery,
                 server_response, calls>>

\* --------------------------------------------------------- get_base_labels

SystemPath == "/redfish/v1/Systems/1"
ChassisPath == "/redfish/v1/Chassis/1"
ManagerPath == "/redfish/v1/Managers/1"
EmptyList == "<empty>"
NoDoc == [none |-> TRUE]

\* str.lower() left out: the string as the document has it.
LowerSkipped(s) == s

\* str.lower() on the strings the documents use.
Lower(s) ==
  CASE s = "On" -> "on"
    [] s = "Enabled" -> "enabled"
    [] s = "CRITICAL" -> "critical"
    [] s = "Off" -> "off"
    [] s = "PoweringOn" -> "poweringon"
    [] s = "OK" -> "ok"
    [] s = "Warning" -> "warning"
    [] s = "WARNING" -> "warning"
    [] s = "Critical" -> "critical"
    [] s = "Error" -> "error"
    [] s = "Unknown" -> "unknown"
    [] OTHER -> s

\* power_states.get(s, 0)
PowerStates(s) ==
  CASE s = "off" -> 0
    [] s = "on" -> 1
    [] OTHER -> 0

\* self.status.get(s, 0)
Status(s) ==
  CASE s \in {"ok", "operable", "enabled", "good", "absent"} -> 0
    [] s \in {"critical", "error"} -> 1
    [] s = "warning" -> 2
    [] OTHER -> 0

\* dict.get(key, default): the default only for a key that is not there.
GetDefault(v, default) == IF v = Absent THEN default ELSE v

\* server_info.get(key, {}).get("@odata.id", "")
DirectUrl(v) == IF v \in {Absent, NoId} THEN "" ELSE v

\* A path no list has as its first entry.
OtherPath == "/redfish/v1/Other/2"

\* An entry of a Links list: a bare string, an object with "@odata.id", an
\* object without.
LinkEntries(u) ==
  {[kind |-> "string", url |-> u], [kind |-> "object", id |-> u],
   [kind |-> "object_noid"]}

\* A Links list: absent, empty, of one entry, or of two with the entry that
\* names u first.
LinkLists(u) ==
  {[form |-> "absent"], [form |-> "list", entries |-> <<>>]}
  \cup {[form |-> "list", entries |-> <<e>>] : e \in LinkEntries(u)}
  \cup {[form |-> "list", entries |-> <<e, [kind |-> "string", url |-> OtherPath]>>] :
          e \in {[kind |-> "string", url |-> u], [kind |-> "object", id |-> u]}}

\* `if chassis_list:` of links.get("Chassis", [])
HasEntries(l) == l.form = "list" /\ l.entries # <<>>

\* The first entry is an object without "@odata.id".
LacksId(l) == HasEntries(l) /\ l.entries[1].kind = "object_noid"

\* The resolution, were it to take the last entry of the list.
LinkUrlLast(l) ==
  LET ref == l.entries[Len(l.entries)]
  IN IF ref.kind = "object" THEN ref.id ELSE ref.url

\* ref = list[0]; ref["@odata.id"] if isinstance(ref, dict) else ref
LinkUrl(l) ==
  LET ref == l.entries[1]
  IN IF ref.kind = "object" THEN ref.id ELSE ref.url

\* ref = list[0]; ref.get("@odata.id", "") for a dict, ref for a str
LinkUrlGet(l) ==
  LET ref == l.entries[1]
  IN IF ref.kind = "string" THEN ref.url
     ELSE IF ref.kind = "object" THEN ref.id
     ELSE ""

SystemsDocs == [Members : {Absent, EmptyList, NoId, "", SystemPath}]

DirectKeys == {"Processors", "Memory", "Storage", "Power", "Thermal", "EthernetInterfaces"}

BaseSystemDoc ==
  [Manufacturer |-> "Dell", Model |-> "R740", SerialNumber |-> "SN1",
   PowerState |-> "On", Health |-> "OK",
   Processors |-> "/redfish/v1/Systems/1/Processors",
   Memory |-> "/redfish/v1/Systems/1/Memory",
   Storage |-> "/redfish/v1/Systems/1/Storage",
   Power |-> Absent,
   Thermal |-> Absent,
   EthernetInterfaces |-> "/redfish/v1/Systems/1/EthernetInterfaces",
   Chassis |-> [form |-> "list", entries |-> <<[kind |-> "object", id |-> ChassisPath]>>],
   ManagedBy |-> [form |-> "list", entries |-> <<[kind |-> "string", url |-> ManagerPath]>>]]

\* The values each member of the system document is varied over.
FieldValues(f) ==
  CASE f \in {"Manufacturer", "Model"} -> {Absent, None, ""}
    [] f = "SerialNumber" -> {Absent, None}
    [] f = "PowerState" -> {Absent, None, "Off", "PoweringOn"}
    [] f = "Health" -> {Absent, None, "Warning", "WARNING", "Critical", "CRITICAL",
                        "error", "Enabled", "Unknown"}
    [] f = "Power" -> {NoId, "/redfish/v1/Systems/1/Power"}
    [] f = "Thermal" -> {NoId, None, "/redfish/v1/Systems/1/Thermal"}
    [] f \in DirectKeys -> {Absent, NoId}
    [] f = "Chassis" -> LinkLists(ChassisPath)
    [] f = "ManagedBy" -> LinkLists(ManagerPath)

\* The system documents: the usual one, and each member varied on its own.
SystemDocs ==
  {BaseSystemDoc}
  \cup UNION {{[BaseSystemDoc EXCEPT ![f] = v] : v \in FieldValues(f)} :
              f \in DOMAIN BaseSystemDoc}

\* An exception leaves get_base_labels (and collect).
Raise(name) ==
  /\ pc' = "exit"
  /\ exc' = name

\* get_base_labels up to the fetch of the system member.
GetBaseLabelsSystems ==
  /\ pc = "gbl_systems"
  /\ \E out \in DiscoveryOutcomes(SystemsDocs) :
       LET resp == ConnResponse(out)
           members == resp.doc.Members
           found == ~ConnRaises(out) /\ HasBody(resp)
                    /\ members \notin {Absent, EmptyList}
       IN
       /\ session' = ConnSession(FALSE, FALSE)
       /\ last_http_code' = ConnCode(out)
       /\ get_end' = ConnEnd(out)
       /\ wire' = Append(wire, GetRequest(urls["Systems"], FALSE, FALSE))
       /\ calls' = calls + 1
       /\ systems_url' = IF found
                         THEN (IF members = NoId THEN None ELSE members)
                         ELSE systems_url
       /\ IF ConnRaises(out) THEN Raise("KeyError")
          ELSE /\ pc' = IF found /\ Truthy(systems_url') THEN "gbl_system" ELSE "downstream"
               /\ UNCHANGED exc
  /\ UNCHANGED <<urls, server_info, manufacturer, model, serial, powerstate,
                 server_health, fetches, establish, delete_end, chassis_data>>

\* The assignments get_base_labels makes from the system document, in order,
\* as far as it gets: "labels" (identity missing: return), "power" and
\* "health" (AttributeError on None), "chassis" and "manager" (KeyError on an
\* entry without "@odata.id"), "done".
SystemStop(doc) ==
  CASE ~Truthy(GetDefault(doc.Manufacturer, "Custom")) -> "labels"
    [] ~Truthy(GetDefault(doc.Model, "unknown")) -> "labels"
    [] doc.PowerState = None -> "power"
    [] doc.Health = None -> "health"
    [] LacksId(doc.Chassis) -> "chassis"
    [] LacksId(doc.ManagedBy) -> "manager"
    [] OTHER -> "done"

\* self.urls after the part of get_base_labels that reads the system
\* document, stopped at `stop`.
SystemUrls(doc, stop) ==
  LET eth == [urls EXCEPT !["EthernetInterfaces"] = DirectUrl(doc.EthernetInterfaces)]
      direct == [k \in UrlKeys |-> IF k \in DirectKeys THEN DirectUrl(doc[k]) ELSE eth[k]]
      chassis == IF HasEntries(doc.Chassis)
                 THEN [direct EXCEPT !["Chassis"] = LinkUrl(doc.Chassis)]
                 ELSE direct
      manager == IF HasEntries(doc.ManagedBy)
                 THEN [chassis EXCEPT !["ManagedBy"] = LinkUrl(doc.ManagedBy)]
                 ELSE chassis
  IN CASE stop \in {"labels", "power", "health"} -> eth
       [] stop = "chassis" -> direct
       [] stop = "manager" -> chassis
       [] OTHER -> manager

\* get_base_labels from the fetch of the system member to its first call of
\* get_chassis_urls.
GetBaseLabelsSystem ==
  /\ pc = "gbl_system"
  /\ \E out \in DiscoveryOutcomes(SystemDocs) :
       LET resp == ConnResponse(out)
           read == ~ConnRaises(out) /\ HasBody(resp)
           doc == resp.doc
           stop == SystemStop(doc)
       IN
       /\ session' = ConnSession(FALSE, FALSE)
       /\ last_http_code' = ConnCode(out)
       /\ get_end' = ConnEnd(out)
       /\ wire' = Append(wire, GetRequest(systems_url, FALSE, FALSE))
       /\ calls' = calls + 1
       /\ urls' = IF read THEN SystemUrls(doc, stop) ELSE urls
       /\ manufacturer' = IF read THEN GetDefault(doc.Manufacturer, "Custom") ELSE manufacturer
       /\ model' = IF read THEN GetDefault(doc.Model, "unknown") ELSE model
       /\ serial' = IF read THEN GetDefault(doc.SerialNumber, "") ELSE serial
       /\ powerstate' = IF read /\ stop \notin {"labels", "power"}
                        THEN PowerStates(Lower(GetDefault(doc.PowerState, "off")))
                        ELSE powerstate
       /\ server_health' = IF read /\ stop \notin {"labels", "power", "health"}
                           THEN Status(Lower(GetDefault(doc.Health, "")))
                           ELSE server_health
       /\ server_info' = IF read THEN doc ELSE server_info
       /\ IF ConnRaises(out) THEN Raise("KeyError")
          ELSE IF ~read \/ stop = "labels" THEN pc' = "downstream" /\ UNCHANGED exc
          ELSE IF stop \in {"power", "health"} THEN Raise("AttributeError")
          ELSE IF stop \in {"chassis", "manager"} THEN Raise("KeyError")
          ELSE pc' = "gbl_chassis1" /\ UNCHANGED exc
  /\ UNCHANGED <<systems_url, fetches, establish, delete_end, chassis_data>>

\* --------------------------------------------------------- get_chassis_urls

ChassisKeys == <<"PowerSubsystem", "Power", "ThermalSubsystem", "Thermal">>

ChassisDocs ==
  [PowerSubsystem : {Absent, "/redfish/v1/Chassis/1/PowerSubsystem"},
   Power : {Absent, "/redfish/v1/Chassis/1/Power"},
   ThermalSubsystem : {Absent, NoId, "/redfish/v1/Chassis/1/ThermalSubsystem"},
   Thermal : {Absent, "/redfish/v1/Chassis/1/Thermal"}]

\* The loop of get_chassis_urls, were it to fill only the entries that are
\* still empty.
ChassisLoopKeep(doc, u, i) ==
  <<[k \in UrlKeys |->
       IF k \in {"PowerSubsystem", "Power", "ThermalSubsystem", "Thermal"}
          /\ doc[k] \notin {Absent, NoId} /\ u[k] = ""
       THEN doc[k] ELSE u[k]],
    FALSE>>

\* The loop of get_chassis_urls, were it to empty the entries of the keys the
\* chassis document does not carry.
ChassisLoopReset(doc, u, i) ==
  <<[k \in UrlKeys |->
       IF k \in {"PowerSubsystem", "Power", "ThermalSubsystem", "Thermal"}
       THEN (IF doc[k] \in {Absent, NoId} THEN "" ELSE doc[k])
       ELSE u[k]],
    FALSE>>

\* The loop of get_chassis_urls from the i-th key on: <<urls, raised>>.  A
\* key whose link has no "@odata.id" raises KeyError and ends the loop.
RECURSIVE ChassisLoop(_, _, _)
ChassisLoop(doc, u, i) ==
  IF i > Len(ChassisKeys) THEN <<u, FALSE>>
  ELSE LET k == ChassisKeys[i] IN
       IF doc[k] = Absent THEN ChassisLoop(doc, u, i + 1)
       ELSE IF doc[k] = NoId THEN <<u, TRUE>>
       ELSE ChassisLoop(doc, [u EXCEPT ![k] = doc[k]], i + 1)

\* get_chassis_urls called with self.urls = u: <<urls, raised>> for the
\* outcome of the chassis fetch.
GetChassisUrls(u, out) ==
  IF ConnRaises(out) THEN <<u, TRUE>>
  ELSE IF ~HasBody(ConnResponse(out)) THEN <<u, FALSE>>
  ELSE ChassisLoop(ConnResponse(out).doc, u, 1)

\* What get_chassis_urls holds in chassis_data when it ends.
ChassisData(out) ==
  IF ConnRaises(out) \/ ~HasBody(ConnResponse(out)) THEN NoDoc
  ELSE ConnResponse(out).doc

\* The lines of get_base_labels between its two calls of get_chassis_urls:
\* the component URLs are set again from the system document.
SecondPass(u, doc) ==
  LET direct == [k \in UrlKeys |-> IF k \in DirectKeys THEN DirectUrl(doc[k]) ELSE u[k]]
      chassis == IF HasEntries(doc.Chassis)
                 THEN [direct EXCEPT !["Chassis"] = LinkUrlGet(doc.Chassis)]
                 ELSE direct
  IN IF HasEntries(doc.ManagedBy)
     THEN [chassis EXCEPT !["ManagedBy"] = LinkUrlGet(doc.ManagedBy)]
     ELSE chassis

\* self.urls as the coming call of get_chassis_urls finds it: before the
\* second call, get_base_labels has set the component URLs again.
ChassisStart ==
  IF pc = "gbl_chassis2" THEN SecondPass(urls, server_info) ELSE urls

\* The first call of get_chassis_urls.
GetBaseLabelsChassis ==
  /\ pc = "gbl_chassis1"
  /\ \E out \in DiscoveryOutcomes(ChassisDocs) :
       LET r == GetChassisUrls(ChassisStart, out) IN
       /\ session' = ConnSession(FALSE, FALSE)
       /\ last_http_code' = ConnCode(out)
       /\ get_end' = ConnEnd(out)
       /\ wire' = Append(wire, GetRequest(ChassisStart["Chassis"], FALSE, FALSE))
       /\ calls' = calls + 1
       /\ chassis_data' = ChassisData(out)
       /\ urls' = r[1]
       /\ IF r[2] THEN Raise("KeyError")
          ELSE pc' = "gbl_chassis2" /\ UNCHANGED exc
  /\ UNCHANGED <<labels, server_info, fetches, establish, delete_end>>

\* The lines of get_base_labels after the first call of get_chassis_urls,
\* and the second call, which ends get_base_labels.
GetBaseLabelsChassisAgain ==
  /\ pc = "gbl_chassis2"
  /\ \E out \in DiscoveryOutcomes(ChassisDocs) :
       LET r == GetChassisUrls(ChassisStart, out) IN
       /\ session' = ConnSession(FALSE, FALSE)
       /\ last_http_code' = ConnCode(out)
       /\ get_end' = ConnEnd(out)
       /\ wire' = Append(wire, GetRequest(ChassisStart["Chassis"], FALSE, FALSE))
       /\ calls' = calls + 1
       /\ chassis_data' = ChassisData(out)
       /\ urls' = r[1]
       /\ IF r[2] THEN Raise("KeyError")
          ELSE pc' = "downstream" /\ UNCHANGED exc
  /\ UNCHANGED <<labels, server_info, fetches, establish, delete_end>>

\* ------------------------------------------------- the downstream collectors

\* How many fetches the downstream collectors make in one scrape.
MaxFetch == 2

\* What a downstream fetch is answered with.
DownstreamOutcomes ==
  {[kind |-> "response", status |-> 200, body |-> DocBody(NoDoc)],
   [kind |-> "response", status |-> 404, body |-> MalformedBody],
   [kind |-> "ConnectionError"]}

\* get_base_labels has returned: its locals and those of get_chassis_urls
\* are gone.
BaseLabelsOver ==
  /\ server_info' = NoDoc
  /\ chassis_data' = NoDoc
  /\ UNCHANGED labels

\* A collector that collect runs after get_base_labels calls connect_server,
\* with arguments of its choice.
DownstreamFetch ==
  /\ pc = "downstream"
  /\ fetches < MaxFetch
  /\ \E noauth \in BOOLEAN, basic \in BOOLEAN, out \in DownstreamOutcomes :
       /\ session' = ConnSession(noauth, basic)
       /\ last_http_code' = ConnCode(out)
       /\ get_end' = ConnEnd(out)
       /\ wire' = Append(wire, GetRequest(urls["EthernetInterfaces"], noauth, basic))
       /\ calls' = calls + 1
       /\ IF ConnRaises(out) THEN Raise("KeyError")
          ELSE UNCHANGED <<pc, exc>>
  /\ fetches' = fetches + 1
  /\ BaseLabelsOver
  /\ UNCHANGED <<urls, establish, delete_end>>

\* collect has yielded its last metric.
CollectDone ==
  /\ pc = "downstream"
  /\ pc' = "exit"
  /\ BaseLabelsOver
  /\ UNCHANGED <<exc, last_http_code, get_end, urls, session, wire, fetches,
                 establish, delete_end, calls>>

\* ------------------------------------------------------------------ __exit__

\* How the DELETE of the session ends: requests.delete returns a response or
\* raises a RequestException, which __exit__ catches.
DeleteOutcomes ==
  {[kind |-> "response", status |-> 200], [kind |-> "response", status |-> 404],
   [kind |-> "RequestException"]}

\* __exit__ deleting whatever the token.
DeletesSessionAlways == TRUE

\* __exit__ deletes the session when there is a token.
DeletesSession == Truthy(auth_token)

\* requests.delete, outside the requests.Session: no auth, the token header.
DeleteRequest ==
  [method |-> "DELETE", url |-> session_url, auth |-> "none", xtoken |-> auth_token]

\* __exit__ leaving the requests session open.
CloseSessionSkipped(s) == s

\* if self._session: self._session.close()
CloseSession(s) == IF s.created THEN [s EXCEPT !.closed = TRUE] ELSE s

\* __exit__, at the end of the with block or when an exception leaves it; the
\* block may be left before get_session was called ("get_session"), and
\* __exit__ may be called once more on the closed collector ("closed").
Exit ==
  /\ pc \in {"get_session", "exit", "closed"}
  /\ IF DeletesSession
     THEN /\ wire' = Append(wire, DeleteRequest)
          /\ \E out \in DeleteOutcomes : delete_end' = out.kind
     ELSE UNCHANGED <<wire, delete_end>>
  /\ session' = CloseSession(session)
  /\ pc' = IF pc = "closed" THEN "closed_again" ELSE "closed"
  /\ UNCHANGED <<exc, last_http_code, get_end, urls, fetches, discovery, establish,
                 calls>>

\* ------------------------------------------------------------ specification

\* The collector as __init__ leaves it.
Init ==
  /\ pc = "get_session"
  /\ exc = ""
  /\ gs_end = "running"
  /\ redfish_up = 0
  /\ last_http_code = 0
  /\ get_end = NoEnd
  /\ urls = [k \in UrlKeys |-> ""]
  /\ auth_token = ""
  /\ session_url = ""
  /\ basic_auth = FALSE
  /\ session = [created |-> FALSE, closed |-> FALSE, auth |-> "none", xtoken |-> Absent]
  /\ redfish_version = "not available"
  /\ sessions_url = ""
  /\ result = NoResult
  /\ systems_url = Absent
  /\ server_info = NoDoc
  /\ chassis_data = NoDoc
  /\ manufacturer = ""
  /\ model = ""
  /\ serial = ""
  /\ powerstate = 0
  /\ server_health = 0
  /\ ss_status = 0
  /\ post_ends = <<>>
  /\ delete_end = ""
  /\ wire = <<>>
  /\ fetches = 0
  /\ server_response = NoBody
  /\ calls = 0

Next ==
  \/ GetSessionRoot
  \/ GetSessionService
  \/ SessionPost
  \/ SessionPostRetry
  \/ Collect
  \/ GetBaseLabelsSystems
  \/ GetBaseLabelsSystem
  \/ GetBaseLabelsChassis
  \/ GetBaseLabelsChassisAgain
  \/ DownstreamFetch
  \/ CollectDone
  \/ Exit

Spec == Init /\ [][Next]_vars

\* ------------------------------------------------------------------- claims

\* The session modes, read off the collector's fields.
TokenAuth == redfish_up = 1 /\ ~basic_auth
BasicAuth == basic_auth
Failed == redfish_up = 0 /\ ~basic_auth

Posts == {i \in 1..Len(wire) : wire[i].method = "POST"}
Gets == {i \in 1..Len(wire) : wire[i].method = "GET"}

\* C1: in every state of a scrape, _redfish_up = 1 implies that _auth_token
\* is set to a non-empty value.
C1_UpImpliesToken == redfish_up = 1 => Truthy(auth_token)

\* C1's case: get_session has returned with the target up.
C1_Witness == gs_end = "returned" /\ redfish_up = 1 /\ auth_token = Token

\* C2: in every state, _redfish_up = 1 implies that the session is not
\* unauthenticated (a token or basic auth is active) and that urls["Systems"]
\* is a non-empty URL.
C2_UpImpliesModeAndSystems ==
  redfish_up = 1 =>
    /\ basic_auth \/ Truthy(auth_token)
    /\ Truthy(urls["Systems"])

\* C3: once get_session has returned, a non-empty _auth_token or
\* _session_url implies TokenAuth (_redfish_up = 1, _basic_auth false): no
\* Failed and no BasicAuth state holds a token.
C3_TokenOnlyInTokenAuth ==
  gs_end = "returned" =>
    (Truthy(auth_token) \/ Truthy(session_url) => TokenAuth)

\* C4: when the SessionService read ends with a status other than 200, the
\* session is in BasicAuth mode, no session POST is issued in the scrape and
\* no token is set.
C4_FailedReadFallsBack ==
  ss_status \notin {0, 200} =>
    /\ BasicAuth
    /\ Posts = {}
    /\ ~Truthy(auth_token)

\* A POST attempt that failed for good: an HTTP error response or a read
\* timeout on either attempt, or a connection error on the retry.
PostFailed ==
  /\ post_ends # <<>>
  /\ LET last == post_ends[Len(post_ends)] IN
       \/ last.kind = "response" /\ last.status >= 400
       \/ last.kind = "ReadTimeout"
       \/ Len(post_ends) = 2 /\ last.kind \in {"ConnectionError", "ConnectTimeout"}

\* C5: whenever the session POST fails (two connection errors in a row, an
\* HTTP error response or a read timeout, on the first attempt or on the
\* retry), get_session returns normally in BasicAuth mode without a token.
C5_FailedPostFallsBack ==
  PostFailed =>
    /\ gs_end = "returned"
    /\ BasicAuth
    /\ ~Truthy(auth_token)

\* C6: the session POST is sent a second time if and only if the first
\* attempt ended in a connection-level error, never a third time, and not
\* after an HTTP error response or a read timeout; connect_server never
\* retries: every call of it puts exactly one GET on the wire.
C6_RetryOnlyAfterConnectionError ==
  /\ Cardinality(Posts) <= 2
  /\ (pc \in {"gs_post", "gs_retry", "collect"} \/ gs_end = "raised") =>
       Cardinality(Posts) = Len(post_ends)
  /\ Len(post_ends) = 2 => post_ends[1].kind \in {"ConnectionError", "ConnectTimeout"}
  /\ (Len(post_ends) = 1 /\ pc # "gs_retry") =>
       post_ends[1].kind \notin {"ConnectionError", "ConnectTimeout"}
  /\ Cardinality(Gets) = calls

\* C6's case: the first POST ended in a connection error and the retry got a
\* session.
C6_Witness ==
  /\ Len(post_ends) = 2
  /\ post_ends[1].kind = "ConnectionError"
  /\ Cardinality(Posts) = 2
  /\ gs_end = "returned"
  /\ redfish_up = 1

\* The response get_session accepted: status 200 or 201.
Accepted == result.kind = "response" /\ result.status \in {200, 201}

\* C7: after a 200/201 POST response, a missing X-Auth-Token header leaves
\* Failed with _redfish_up = 0; otherwise the session URL is the Location
\* header when there is one, else the "@odata.id" of the JSON body; without
\* either, Failed with _redfish_up = 0; TokenAuth with _redfish_up = 1 only
\* with both a token and a session URL.
C7_SessionFromResponse ==
  (gs_end # "running" /\ Accepted) =>
    LET token == result.token \notin {Absent, ""}
        location == result.location \notin {Absent, ""}
        body == result.body = "object" /\ result.id \notin {Absent, ""}
    IN /\ ~token => Failed
       /\ (token /\ location) =>
            TokenAuth /\ session_url = result.location /\ auth_token = result.token
       /\ (token /\ ~location /\ body) =>
            TokenAuth /\ session_url = result.id /\ auth_token = result.token
       /\ (token /\ ~location /\ ~body) => Failed
       /\ redfish_up = 1 => token /\ (location \/ body)

\* C7's case: a 201 without Location header whose body names the session.
C7_Witness ==
  /\ gs_end = "returned"
  /\ Accepted
  /\ result.token = Token
  /\ result.location = Absent
  /\ result.body = "object"
  /\ session_url = BodySessionPath
  /\ redfish_up = 1

\* The root fetch gave no body, or a document without the Systems or the
\* SessionService link.
RootUnusable ==
  \/ server_response.json # "doc"
  \/ server_response.doc.Systems = Absent
  \/ server_response.doc.SessionService = Absent

\* C8: when the root fetch yields no body, or the root document lacks the
\* Systems or the SessionService link, get_session ends in Failed with
\* _redfish_up = 0 and nothing else is attempted in the scrape: the root GET
\* stays the only request, and no collector fetches.
C8_UnusableRootStops ==
  (calls > 0 /\ RootUnusable) =>
    /\ Failed
    /\ Len(wire) = 1
    /\ wire[1].url = RootPath
    /\ fetches = 0
    /\ pc \in {"collect", "exit", "closed", "closed_again"}

\* C8's case: a root document with Systems and without SessionService, at
\* the end of the scrape.
C8_Witness ==
  /\ pc = "closed"
  /\ exc = ""
  /\ server_response.json = "doc"
  /\ server_response.doc.Systems = SystemsPath
  /\ server_response.doc.SessionService = Absent
  /\ Len(wire) = 1

\* C9: when get_session ends in BasicAuth mode the scrape is not treated as
\* down: collect goes on to discovery, which fetches the Systems collection
\* under basic auth.
C9_BasicAuthStaysObservable ==
  (BasicAuth /\ gs_end = "returned" /\ pc \in {"exit", "closed"}) =>
    \E i \in Gets : wire[i].url = urls["Systems"] /\ wire[i].auth = "basic"

\* C10: after a SessionService read that got a 401, the session is in
\* BasicAuth mode and every later fetch carries the basic-auth credentials
\* and no X-Auth-Token header.
C10_BasicAuthAfter401 ==
  ss_status = 401 =>
    /\ BasicAuth
    /\ \A i \in Gets : i > 2 => wire[i].auth = "basic" /\ wire[i].xtoken = Absent

Deletes == {i \in 1..Len(wire) : wire[i].method = "DELETE"}

\* C11: __exit__ sends the session DELETE only in TokenAuth, and then to the
\* session's own URL with the token in the header; from BasicAuth and from
\* every Failed state (a failure after the POST was answered included) it
\* sends no request.
C11_DeleteOnlyInTokenAuth ==
  \A i \in Deletes :
    /\ TokenAuth
    /\ Truthy(session_url)
    /\ wire[i].url = session_url
    /\ wire[i].xtoken = auth_token

\* Everything but the caller's position.
context ==
  <<exc, gs_end, redfish_up, last_http_code, get_end, urls, auth_token, session_url,
    basic_auth, session, redfish_version, server_response, sessions_url,
    result, systems_url, server_info, manufacturer, model, serial, powerstate,
    server_health, ss_status, post_ends, delete_end, calls, wire, fetches,
    chassis_data>>

\* A step of __exit__.
ExitStep == pc \in {"get_session", "exit", "closed"} /\ pc' \in {"closed", "closed_again"}

\* C12: when no session was ever established (a fresh collector, or a
\* get_session that ended Failed without a token), __exit__ returns without
\* raising and sends no request, and a second call of it leaves every field
\* as the first call left it.
C12_TeardownIdempotent ==
  [][(ExitStep /\ Failed /\ ~Truthy(auth_token)) =>
       /\ wire' = wire
       /\ exc' = exc
       /\ pc = "closed" => UNCHANGED context]_vars

\* C12's case: __exit__ was called twice after a get_session that opened the
\* requests session and ended Failed without a token.
C12_Witness ==
  /\ pc = "closed_again"
  /\ gs_end = "returned"
  /\ Failed
  /\ auth_token = ""
  /\ session.closed
  /\ Deletes = {}

\* C13: whenever a requests session was opened, __exit__ closes it on every
\* branch (with or without a DELETE, whether the DELETE is answered or ends
\* in a network error, after every early return of get_session), and a
\* failed DELETE does not make __exit__ raise.
C13_TeardownClosesSession ==
  [][ExitStep =>
       /\ session.created => session'.closed
       /\ exc' = exc]_vars

\* C13's case: in TokenAuth the DELETE ended in a network error and the
\* requests session is closed.
C13_Witness ==
  /\ pc = "closed"
  /\ TokenAuth
  /\ delete_end = "RequestException"
  /\ session.created
  /\ session.closed
  /\ exc = ""

\* C14: whatever the server answers, no exception leaves get_session,
\* connect_server, get_base_labels, get_chassis_urls or __exit__, and once
\* get_session is over the collector is established or has _redfish_up = 0.
C14_NeverRaises ==
  /\ exc = ""
  /\ gs_end # "raised"
  /\ gs_end = "returned" => (TokenAuth \/ BasicAuth \/ redfish_up = 0)

\* get_base_labels has read the system document.
SystemRead == server_info # NoDoc

\* An identity field that is missing or malformed: absent, null or empty.
Unusable(v) == v \in {Absent, None, ""}

\* C15: for a system document whose identity fields are absent, null or
\* empty, get_base_labels sets manufacturer "Custom", model "unknown" and
\* serial "" for those fields and goes on: the component URLs and the
\* Chassis and ManagedBy entries are set from the document.
C15_IdentityDefaults ==
  SystemRead =>
    /\ Unusable(server_info.Manufacturer) => manufacturer = "Custom"
    /\ Unusable(server_info.Model) => model = "unknown"
    /\ Unusable(server_info.SerialNumber) => serial = ""
    /\ (\/ Unusable(server_info.Manufacturer)
        \/ Unusable(server_info.Model)
        \/ Unusable(server_info.SerialNumber)) =>
         /\ urls["Processors"] = server_info.Processors
         /\ urls["Chassis"] = ChassisPath
         /\ urls["ManagedBy"] = ManagerPath

\* get_base_labels has just ended after both documents were read: the system
\* document and the chassis document of the last get_chassis_urls.
EndOfDiscovery ==
  /\ pc = "downstream"
  /\ server_info # NoDoc
  /\ chassis_data # NoDoc

\* The system document carries a Thermal link.
SystemThermal == server_info.Thermal \notin {Absent, NoId, None}

\* C16 as stated: when the system document set urls["Thermal"] and the
\* chassis document carries ThermalSubsystem, the final urls["Thermal"] is a
\* link of the chassis document and not the system-level one.
C16_ThermalSubsystemOverwritesThermal ==
  (EndOfDiscovery /\ SystemThermal /\ chassis_data.ThermalSubsystem # Absent) =>
    /\ urls["Thermal"] # server_info.Thermal
    /\ urls["Thermal"] \in {chassis_data.ThermalSubsystem, chassis_data.Thermal}

\* C16, amended: each chassis link overwrites the entry of its own name.
\* When the system document set urls["Thermal"], the final urls["Thermal"]
\* is the chassis document's Thermal link if it carries one and the
\* system-level link otherwise; a chassis ThermalSubsystem link goes to
\* urls["ThermalSubsystem"].
C16_ChassisThermalOverwritesThermal ==
  (EndOfDiscovery /\ SystemThermal) =>
    /\ chassis_data.Thermal # Absent => urls["Thermal"] = chassis_data.Thermal
    /\ chassis_data.Thermal = Absent => urls["Thermal"] = server_info.Thermal
    /\ chassis_data.ThermalSubsystem # Absent =>
         urls["ThermalSubsystem"] = chassis_data.ThermalSubsystem

\* C16's case: the system document set urls["Thermal"], the chassis document
\* carries ThermalSubsystem and Thermal, and the chassis Thermal link won.
C16_Witness ==
  /\ EndOfDiscovery
  /\ SystemThermal
  /\ chassis_data.ThermalSubsystem = "/redfish/v1/Chassis/1/ThermalSubsystem"
  /\ chassis_data.Thermal = "/redfish/v1/Chassis/1/Thermal"
  /\ urls["Thermal"] = "/redfish/v1/Chassis/1/Thermal"
  /\ urls["ThermalSubsystem"] = "/redfish/v1/Chassis/1/ThermalSubsystem"

\* get_base_labels is about to call get_chassis_urls.
ChassisStep == pc \in {"gbl_chassis1", "gbl_chassis2"}

\* C17: with an empty urls["Chassis"], get_chassis_urls sends no request,
\* raises nothing and leaves self.urls, _last_http_code and every other
\* field as they were.
C17_EmptyChassisUrlNoOp ==
  [][(ChassisStep /\ ChassisStart["Chassis"] = "") =>
       /\ wire' = wire
       /\ calls' = calls
       /\ exc' = exc
       /\ urls' = ChassisStart
       /\ last_http_code' = last_http_code
       /\ session' = session
       /\ UNCHANGED <<labels, establish>>]_vars

ChassisKeySet == {ChassisKeys[i] : i \in 1..Len(ChassisKeys)}

\* The chassis document was read and carries the key.
Carries(doc, k) == doc # NoDoc /\ doc[k] # Absent

\* C18: a call of get_chassis_urls changes an entry of self.urls only if it
\* is one of PowerSubsystem, Power, ThermalSubsystem, Thermal and the chassis
\* document carries that key; self.urls keeps all its keys, and an entry that
\* neither the system document nor the chassis document advertises is "" when
\* discovery ends.
C18_ChassisFrame ==
  /\ [][ChassisStep =>
          \A k \in UrlKeys :
            urls'[k] # ChassisStart[k] =>
              k \in ChassisKeySet /\ Carries(chassis_data', k)]_vars
  /\ [](/\ DOMAIN urls = UrlKeys
        /\ (ChassisStep \/ EndOfDiscovery) =>
             \A k \in DirectKeys \ ChassisKeySet :
               server_info[k] = Absent => urls[k] = ""
        /\ ChassisStep =>
             \A k \in DirectKeys \cap ChassisKeySet :
               server_info[k] = Absent => ChassisStart[k] = ""
        /\ pc = "gbl_chassis1" => \A k \in ChassisKeySet \ DirectKeys : urls[k] = ""
        /\ pc = "gbl_chassis2" =>
             \A k \in ChassisKeySet \ DirectKeys :
               ~Carries(chassis_data, k) => urls[k] = ""
        /\ EndOfDiscovery =>
             \A k \in DirectKeys \cap ChassisKeySet :
               (server_info[k] = Absent /\ ~Carries(chassis_data, k)) => urls[k] = "")

\* C18's case: discovery has ended; the chassis document carried
\* ThermalSubsystem alone, which is set, and no document advertised Power,
\* Thermal or PowerSubsystem, which are "".
C18_Witness ==
  /\ EndOfDiscovery
  /\ server_info.Power = Absent
  /\ server_info.Thermal = Absent
  /\ chassis_data.ThermalSubsystem = "/redfish/v1/Chassis/1/ThermalSubsystem"
  /\ chassis_data.PowerSubsystem = Absent
  /\ chassis_data.Power = Absent
  /\ chassis_data.Thermal = Absent
  /\ urls["ThermalSubsystem"] = "/redfish/v1/Chassis/1/ThermalSubsystem"
  /\ urls["PowerSubsystem"] = ""
  /\ urls["Power"] = ""
  /\ urls["Thermal"] = ""

\* A step of get_base_labels or of get_chassis_urls.
DiscoveryStep == pc \in {"gbl_systems", "gbl_system", "gbl_chassis1", "gbl_chassis2"}

\* C19: during discovery an entry of self.urls that holds a non-empty URL is
\* never reset to empty, and a step whose fetch fails leaves every entry as
\* it was.
C19_AppendOnly ==
  [][DiscoveryStep =>
       /\ \A k \in UrlKeys : Truthy(urls[k]) => Truthy(urls'[k])
       /\ (ChassisStep /\ chassis_data' = NoDoc) => urls' = urls]_vars

\* get_base_labels has resolved the links of the system document.
LinksResolved == pc \in {"gbl_chassis1", "gbl_chassis2"} \/ EndOfDiscovery

\* C20: urls["Chassis"] and urls["ManagedBy"] are resolved from the first
\* entry of the Links list, to the same URL whether that entry is the bare
\* string or an object whose "@odata.id" is that string; with the list
\* absent or empty the entry stays "".
C20_LinkResolution ==
  LinksResolved =>
    /\ urls["Chassis"] = IF HasEntries(server_info.Chassis) THEN ChassisPath ELSE ""
    /\ urls["ManagedBy"] = IF HasEntries(server_info.ManagedBy) THEN ManagerPath ELSE ""

\* C20's case: the Chassis list has two entries, the first an object; the
\* ManagedBy list has a bare string; both entries are resolved.
C20_Witness ==
  /\ pc = "gbl_chassis1"
  /\ HasEntries(server_info.Chassis)
  /\ HasEntries(server_info.ManagedBy)
  /\ Len(server_info.Chassis.entries) = 2
  /\ server_info.Chassis.entries[1] = [kind |-> "object", id |-> ChassisPath]
  /\ server_info.ManagedBy.entries[1] = [kind |-> "string", url |-> ManagerPath]
  /\ urls["Chassis"] = ChassisPath
  /\ urls["ManagedBy"] = ManagerPath

\* get_base_labels has applied the health mapping to the system document, or
\* met a null Health there.
HealthMapped ==
  /\ SystemRead
  /\ SystemStop(server_info) \notin {"labels", "power"}

\* The health classes, in the casings the documents use.
HealthyNames == {"OK", "ok", "Operable", "operable", "Enabled", "enabled", "ENABLED",
                 "Good", "good", "Absent", "absent"}
WarningNames == {"Warning", "warning", "WARNING"}
CriticalNames == {"Critical", "critical", "CRITICAL", "Error", "error", "ERROR"}

\* C21: the value get_base_labels derives from the system document's
\* Status.Health is 0 for ok, operable, enabled, good and absent, 2 for
\* warning and 1 for critical and error, in any casing, and 0 for every other
\* value and for a missing Status or Health.
C21_HealthMapping ==
  HealthMapped =>
    server_health = CASE server_info.Health \in WarningNames -> 2
                      [] server_info.Health \in CriticalNames -> 1
                      [] OTHER -> 0

\* C21's case: a Health in capitals was mapped to its class.
C21_Witness ==
  /\ HealthMapped
  /\ server_info.Health = "WARNING"
  /\ server_health = 2
  /\ exc = ""

\* C22: discovery is ordered and gated.  The Systems collection is fetched
\* only after get_session returned with _redfish_up = 1, as the third GET of
\* the scrape; the system member only after the collection named one in a
\* non-empty Members list; the chassis only after the system document was
\* read; with _redfish_up = 0 nothing is fetched beyond get_session's own
\* two GETs.
C22_DiscoveryOrdered ==
  /\ DiscoveryStep => redfish_up = 1 /\ gs_end = "returned"
  /\ pc = "gbl_systems" => calls = 2 /\ systems_url = Absent /\ ~SystemRead
  /\ pc = "gbl_system" =>
       /\ calls = 3
       /\ systems_url # Absent /\ Truthy(systems_url)
       /\ wire[Len(wire)].url = urls["Systems"]
       /\ ~SystemRead
  /\ pc = "gbl_chassis1" =>
       calls = 4 /\ SystemRead /\ wire[Len(wire)].url = systems_url
  /\ pc = "gbl_chassis2" => calls = 5 /\ SystemRead
  /\ redfish_up = 0 => Cardinality(Gets) <= 2 /\ fetches = 0

\* C22's case: the chassis is about to be fetched a second time, after the
\* Systems collection, the system member and the chassis were fetched in
\* this order.
C22_Witness ==
  /\ pc = "gbl_chassis2"
  /\ redfish_up = 1
  /\ Cardinality(Gets) = 5
  /\ wire[Len(wire) - 2].url = SystemsPath
  /\ wire[Len(wire) - 1].url = SystemPath
  /\ wire[Len(wire)].url = ChassisPath

\* C23: after a call of connect_server, _last_http_code is the status of the
\* response when there was one, and otherwise 408 after a connect or read
\* timeout, 444 after a connection error and 500 after any other request
\* error; it is 200 only when a response with status 200 was received, and a
\* body was handed back only from a response with a status below 400.
C23_LastStatus ==
  get_end # NoEnd =>
    /\ get_end.kind = "response" => last_http_code = get_end.status
    /\ get_end.kind \in {"ConnectTimeout", "ReadTimeout"} => last_http_code = 408
    /\ get_end.kind = "ConnectionError" => last_http_code = 444
    /\ get_end.kind = "RequestException" => last_http_code = 500
    /\ last_http_code = 200 => get_end.kind = "response" /\ get_end.status = 200
    /\ get_end.returned # "none" => get_end.kind = "response" /\ get_end.status < 400

\* C23's case: a fetch ended in a connection error and left 444.
C23_Witness ==
  /\ get_end.kind = "ConnectionError"
  /\ last_http_code = 444
  /\ calls > 0

\* get_session is running, or has just ended: the wire holds its requests
\* and no others.
EstablishOnly ==
  \/ pc \in {"get_session", "gs_session_service", "gs_post", "gs_retry", "collect"}
  \/ pc = "exit" /\ gs_end = "raised"

\* How many requests get_session can still send.
EstablishRank ==
  CASE pc = "get_session" -> 4
    [] pc = "gs_session_service" -> 3
    [] pc = "gs_post" -> 2
    [] pc = "gs_retry" -> 1
    [] OTHER -> 0

\* C24: one run of get_session ends after at most four requests, in this
\* order: the GET of the service root, the GET of SessionService, sent only
\* when the root gave both links, and one or two session POSTs, sent only
\* when the SessionService read gave 200; every step of get_session sends one
\* request and brings its end nearer.
C24_EstablishBounded ==
  /\ [](EstablishOnly =>
          /\ Len(wire) <= 4 - EstablishRank
          /\ Len(wire) >= 1 => wire[1].method = "GET" /\ wire[1].url = RootPath
          /\ Len(wire) >= 2 =>
               /\ wire[2].method = "GET"
               /\ wire[2].url = urls["SessionService"]
               /\ ~RootUnusable
          /\ Len(wire) >= 3 => ss_status = 200
          /\ \A i \in 1..Len(wire) : wire[i].method = "POST" <=> i >= 3)
  /\ [][EstablishRank > 0 =>
          /\ EstablishRank' < EstablishRank
          /\ Len(wire') <= Len(wire) + 1]_vars

\* C24's case: get_session has returned after four requests, two GETs and
\* two POSTs.
C24_Witness ==
  /\ pc = "collect"
  /\ Len(wire) = 4
  /\ wire[3].method = "POST"
  /\ wire[4].method = "POST"
  /\ gs_end = "returned"

\* The GETs that the downstream collectors sent: the last `fetches` of them.
Downstream(i) ==
  /\ wire[i].method = "GET"
  /\ Cardinality({j \in Gets : j <= i}) > calls - fetches

\* C25: the user name and password go as basic-auth credentials only with
\* the SessionService read and with fetches made in BasicAuth mode.  The
\* root fetch, the session POSTs and the fetches that get_base_labels and
\* get_chassis_urls make in TokenAuth mode carry none, and every fetch made
\* in TokenAuth mode, those of the downstream collectors included, carries
\* the token in X-Auth-Token.  (Whether a downstream collector asks for
\* basic auth is its own argument to connect_server.)
C25_Credentials ==
  \A i \in 1..Len(wire) :
    /\ (wire[i].auth = "basic" /\ ~Downstream(i)) =>
         \/ i = 2 /\ wire[i].method = "GET" /\ wire[i].url = urls["SessionService"]
         \/ BasicAuth /\ i > 2
    /\ i = 1 => wire[i].auth = "none" /\ wire[i].xtoken = Absent
    /\ wire[i].method = "POST" => wire[i].auth = "none" /\ wire[i].xtoken = Absent
    /\ (wire[i].method = "GET" /\ i > 2) =>
         TokenAuth /\ wire[i].xtoken = auth_token /\ Truthy(auth_token)

\* C25's case: in TokenAuth mode, after the SessionService read under basic
\* auth and the POST without, discovery and a downstream collector have
\* fetched with the token.
C25_Witness ==
  /\ TokenAuth
  /\ fetches = 1
  /\ Len(wire) >= 5
  /\ wire[2].auth = "basic"
  /\ wire[3].method = "POST"
  /\ wire[3].auth = "none"
  /\ wire[Len(wire)].method = "GET"
  /\ wire[Len(wire)].xtoken = Token
  /\ \A i \in Gets : i > 2 /\ ~Downstream(i) => wire[i].auth = "none"

====
